---- MODULE Spec2Model ----
(***************************************************************************)
(* A model of the three generation facilities of preamble.h:               *)
(*   - DEFAULT ARGUMENTS: WITH_DEFAULTS / VA_ARGS_COUNT / POP_10TH_ARG      *)
(*   - ENUMS:             GENERATE_ENUM / GENERATE_STRING                   *)
(*   - FORMATTING:        BINARY_FORMAT_PATTERN_w / BYTE_TO_BINARY_CHARS_w  *)
(* Macro expansion is modelled on token sequences (sequences of strings);  *)
(* integers are modelled as bit vectors so that the casts to u8/u16/u32/   *)
(* u64 and the shifts keep their width.                                    *)
(***************************************************************************)
EXTENDS Integers, Sequences, FiniteSets, TLC

VARIABLES
    family,      \* name f of the dispatch family handed to WITH_DEFAULTS
    defined,     \* arities k for which an implementation fk is in scope
    called,      \* TRUE once a dispatch call has been expanded
    callArgs,    \* the real arguments of the call, one token each
    count,       \* the token VA_ARGS_COUNT(__VA_ARGS__) expanded to
    expansion,   \* the token sequence WITH_DEFAULTS expanded to
    outcome,     \* what the translation of the expansion ends in
    list,        \* the canonical list: the names F is applied to, in order
    build,       \* result of translating the enum and the name table
    enumMembers, \* the enumeration constants, [name, ordinal]
    nameTable,   \* the String array, [data, length]
    value,       \* the formatter's argument x, a bit vector (bit 0 first)
    width,       \* 0 before a formatting call, else 8, 16, 32 or 64
    pattern,     \* BINARY_FORMAT_PATTERN_<width>, a sequence of characters
    chars        \* BYTE_TO_BINARY_CHARS_<width>(value), a sequence of characters

dispatchVars == <<family, defined, called, callArgs, count, expansion, outcome>>
enumVars     == <<list, build, enumMembers, nameTable>>
formatVars   == <<value, width, pattern, chars>>
vars         == <<dispatchVars, enumVars, formatVars>>

(***************************************************************************)
(*                          Bounds of the model                            *)
(***************************************************************************)
MaxCallArgs == 9   \* dispatch calls supply 0 .. MaxCallArgs arguments
MaxLen      == 3   \* canonical lists hold 1 .. MaxLen names
NumNames    == 5   \* names the author picks from
NumPairs    == 2   \* pairs of byte values the formatter's arguments are built from

(***************************************************************************)
(*                       Generic sequence helpers                          *)
(***************************************************************************)
RECURSIVE Flatten(_)
Flatten(ss) == IF ss = <<>> THEN <<>> ELSE Head(ss) \o Flatten(Tail(ss))

\* The arguments of a macro invocation: the tokens between the parentheses,
\* cut at every comma. No tokens at all is one (empty) argument.
RECURSIVE SplitArgs(_, _)
SplitArgs(tokens, cur) ==
    IF tokens = <<>> THEN <<cur>>
    ELSE IF Head(tokens) = "," THEN <<cur>> \o SplitArgs(Tail(tokens), <<>>)
    ELSE SplitArgs(Tail(tokens), Append(cur, Head(tokens)))

\* __VA_ARGS__: the variable arguments, commas between them included.
RECURSIVE VaArgs(_)
VaArgs(args) ==
    IF args = <<>> THEN <<>>
    ELSE IF Len(args) = 1 THEN <<args[1]>>
    ELSE <<args[1], ",">> \o VaArgs(Tail(args))

(***************************************************************************)
(*                  DEFAULT ARGUMENTS  (preamble.h 150-173)                *)
(***************************************************************************)
\* The sentinels VA_ARGS_COUNT appends after __VA_ARGS__.
Sentinels == <<"8", "7", "6", "5", "4", "3", "2", "1", "0">>

\* #define INTERNAL_CONCAT_HELP(x, y)  x ## y
\* #define INTERNAL_CONCATENATE(x, y)  INTERNAL_CONCAT_HELP(x, y)
\* The two arguments (one token each) pasted into one token.
INTERNAL_CONCATENATE(x, y) == <<x[1] \o y[1]>>

\* Rescanning "name(x, y)" in a replacement list: the header's macro of that
\* name is expanded; a name the header defines no macro for stays as written.
\* The header defines INTERNAL_CONCATENATE; it defines no CONCATENATE.
Rescan(name, x, y) ==
    IF name = "INTERNAL_CONCATENATE"
    THEN INTERNAL_CONCATENATE(x, y)
    ELSE <<name, "(">> \o x \o <<",">> \o y \o <<")">>

\* The parameter list (arg1, ..., arg8, argN, ...) names argN in ninth place.
POP_10TH_ARG_Slot10(argv) == IF Len(argv) >= 10 THEN argv[10] ELSE <<>>
POP_10TH_ARG(argv) == IF Len(argv) >= 9 THEN argv[9] ELSE <<>>

\* #define VA_ARGS_COUNT(...)  POP_10TH_ARG(__VA_ARGS__, 8, 7, 6, 5, 4, 3, 2, 1, 0)
CountArgv(args) == SplitArgs(VaArgs(args) \o <<",">> \o VaArgs(Sentinels), <<>>)
VA_ARGS_COUNT(args) == POP_10TH_ARG(CountArgv(args))

\* #define SELECT_FUNCTION(function, postfix) CONCATENATE(function, postfix)
SELECT_FUNCTION(function, postfix) == Rescan("CONCATENATE", function, postfix)

\* #define WITH_DEFAULTS(f, ...) SELECT_FUNCTION(f, VA_ARGS_COUNT(__VA_ARGS__))(__VA_ARGS__)
WITH_DEFAULTS(f, args) ==
    SELECT_FUNCTION(<<f>>, VA_ARGS_COUNT(args)) \o <<"(">> \o VaArgs(args) \o <<")">>

\* The name of the implementation of family f for arity k: greet1, greet2, ...
ImplName(f, k) == f \o ToString(k)
Implementations(f, ks) == {ImplName(f, k) : k \in ks}

\* Tokens of the first parenthesised group after the head identifier.
RECURSIVE UpToClose(_)
UpToClose(tokens) ==
    IF tokens = <<>> \/ Head(tokens) = ")" THEN <<>>
    ELSE <<Head(tokens)>> \o UpToClose(Tail(tokens))

\* Translation of the expanded call "head ( arguments ) ...": the call goes to
\* head when head is an implementation in scope; an identifier that names
\* nothing in scope stops the build, and the diagnostic names that identifier.
Translate(tokens, f, ks) ==
    LET head == tokens[1]
        passed == SplitArgs(UpToClose(SubSeq(tokens, 3, Len(tokens))), <<>>)
    IN  IF head \in Implementations(f, ks)
        THEN [status |-> "invoked", symbol |-> head, args |-> Flatten(passed)]
        ELSE [status |-> "build_failure", symbol |-> head, args |-> <<>>]

Families == {"greet", "sum"}

\* The k real arguments of a call, one identifier each: a1, ..., ak.
ArgTokens(k) == [i \in 1..k |-> "a" \o ToString(i)]

NoOutcome == [status |-> "none", symbol |-> "", args |-> <<>>]

DispatchInit ==
    /\ family \in Families
    /\ defined \in SUBSET (1..8)
    /\ called = FALSE
    /\ callArgs = <<>>
    /\ count = <<>>
    /\ expansion = <<>>
    /\ outcome = NoOutcome

\* A call f(a1, ..., ak) through the dispatcher "#define f(...) WITH_DEFAULTS(f, __VA_ARGS__)".
Call(k) ==
    LET args == ArgTokens(k)
        toks == WITH_DEFAULTS(family, args)
    IN  /\ callArgs' = args
        /\ called' = TRUE
        /\ count' = VA_ARGS_COUNT(args)
        /\ expansion' = toks
        /\ outcome' = Translate(toks, family, defined)
        /\ UNCHANGED <<family, defined, enumVars, formatVars>>

DispatchNext == \E k \in 0..MaxCallArgs : Call(k)

(***************************************************************************)
(*                        ENUMS  (preamble.h 124-147)                      *)
(***************************************************************************)
\* The identifiers the author may list, each with its spelling.
AllNames == <<"A", "OK", "RED", "BLUE", "GREEN", "NONE_0">>
Spelling ==
    [A      |-> <<"A">>,
     OK     |-> <<"O", "K">>,
     RED    |-> <<"R", "E", "D">>,
     BLUE   |-> <<"B", "L", "U", "E">>,
     GREEN  |-> <<"G", "R", "E", "E", "N">>,
     NONE_0 |-> <<"N", "O", "N", "E", "_", "0">>]
Names == {AllNames[i] : i \in 1..NumNames}

NUL == "\\0"

\* #name: a string literal, the array of the spelling's characters and a
\* terminating null character.
Stringify(name) == Spelling[name] \o <<NUL>>

\* sizeof applied to a string literal: the number of elements of the array.
Sizeof(literal) == Len(literal)

\* The string a character array holds: the characters before the first null.
RECURSIVE CString(_)
CString(data) ==
    IF data = <<>> \/ Head(data) = NUL THEN <<>>
    ELSE <<Head(data)>> \o CString(Tail(data))

\* #define GENERATE_ENUM(name) name,
GENERATE_ENUM(name) == <<name, ",">>

\* #define GENERATE_STRING(name) (String) { #name , sizeof(#name) },
\* One compound literal, its two members initialised in order.
GENERATE_STRING_Unexpanded(name) ==
    <<[data |-> <<"n", "a", "m", "e", NUL>>, length |-> Sizeof(<<"n", "a", "m", "e", NUL>>)]>>
GENERATE_STRING(name) ==
    <<[data |-> Stringify(name), length |-> Sizeof(Stringify(name))]>>

\* #define FOR_EACH_MY_ENUM(F) F(MY_ENUM_1) F(MY_ENUM_2) ...
\* F applied to every name of the list, in the order written.
Expand(F, name) ==
    IF F = "GENERATE_ENUM" THEN GENERATE_ENUM(name) ELSE GENERATE_STRING(name)

RECURSIVE FOR_EACH(_, _)
FOR_EACH(F, names) ==
    IF names = <<>> THEN <<>>
    ELSE Expand(F, Head(names)) \o FOR_EACH(F, Tail(names))

\* The enumerators of "enum { body }": the identifiers between the commas;
\* a comma after the last one is allowed.
Enumerators(body) ==
    LET parts == SplitArgs(body, <<>>)
    IN  Flatten(IF parts[Len(parts)] = <<>> THEN SubSeq(parts, 1, Len(parts) - 1) ELSE parts)

\* The value of the i-th enumerator without "= constant": 0 for the first,
\* one more than the previous one for every other.
RECURSIVE EnumValue(_)
EnumValue(i) == IF i = 1 THEN 0 ELSE EnumValue(i - 1) + 1

HasDuplicate(seq) == \E i, j \in 1..Len(seq) : i < j /\ seq[i] = seq[j]

\* typedef enum { FOR_EACH_MY_ENUM(GENERATE_ENUM) } MyThing;
\* static String MY_ENUM_STRINGS[] = { FOR_EACH_MY_ENUM(GENERATE_STRING) };
\* Declaring an enumeration constant twice in one scope is a redefinition,
\* which stops the build; otherwise both declarations take effect.
DeclareNoCheck(names) ==
    LET ids == Enumerators(FOR_EACH("GENERATE_ENUM", names))
    IN  [build   |-> "ok",
         members |-> [i \in 1..Len(ids) |-> [name |-> ids[i], ordinal |-> EnumValue(i)]],
         table   |-> FOR_EACH("GENERATE_STRING", names)]
Declare(names) ==
    LET ids == Enumerators(FOR_EACH("GENERATE_ENUM", names))
    IN  IF HasDuplicate(ids)
        THEN [build |-> "redefinition", members |-> <<>>, table |-> <<>>]
        ELSE [build   |-> "ok",
              members |-> [i \in 1..Len(ids) |-> [name |-> ids[i], ordinal |-> EnumValue(i)]],
              table   |-> FOR_EACH("GENERATE_STRING", names)]

\* The translation unit is rebuilt from the list as edited.
Rebuild(names) ==
    LET d == Declare(names)
    IN  /\ list' = names
        /\ build' = d.build
        /\ enumMembers' = d.members
        /\ nameTable' = d.table
        /\ UNCHANGED <<dispatchVars, formatVars>>

EnumInit ==
    \E n \in Names :
        LET d == Declare(<<n>>)
        IN  /\ list = <<n>>
            /\ build = d.build
            /\ enumMembers = d.members
            /\ nameTable = d.table

\* The author writes F(name) as the pos-th line of the list.
Insert(name, pos) ==
    /\ Len(list) < MaxLen
    /\ pos \in 1..Len(list) + 1
    /\ Rebuild(SubSeq(list, 1, pos - 1) \o <<name>> \o SubSeq(list, pos, Len(list)))

\* The author deletes the pos-th line of the list.
Remove(pos) ==
    /\ Len(list) > 1
    /\ pos \in 1..Len(list)
    /\ Rebuild(SubSeq(list, 1, pos - 1) \o SubSeq(list, pos + 1, Len(list)))

\* The author exchanges two lines of the list.
Reorder(i, j) ==
    /\ i \in 1..Len(list)
    /\ j \in 1..Len(list)
    /\ i < j
    /\ Rebuild([list EXCEPT ![i] = list[j], ![j] = list[i]])

EnumNext ==
    \/ \E name \in Names, pos \in 1..MaxLen : Insert(name, pos)
    \/ \E pos \in 1..MaxLen : Remove(pos)
    \/ \E i, j \in 1..MaxLen : Reorder(i, j)

(***************************************************************************)
(*                     FORMATTING  (preamble.h 176-198)                    *)
(***************************************************************************)
\* An integer is the sequence of its bits in two's complement, bit 0 first.
Zeros(n) == [i \in 1..n |-> 0]

\* Conversion to an unsigned type of w bits: the low w bits are kept, a
\* narrower non-negative operand is extended with zeros.
Unsigned(x, w) == [i \in 1..w |-> IF i <= Len(x) THEN x[i] ELSE 0]

\* typedef uint8_t u8; ... typedef uint64_t u64;
U8(x)  == Unsigned(x, 8)
U16(x) == Unsigned(x, 16)
U32(x) == Unsigned(x, 32)
U64(x) == Unsigned(x, 64)

\* x >> s on a non-negative operand: bit i of the result is bit i + s of x.
ShiftRight(x, s) == [i \in 1..Len(x) |-> IF i + s <= Len(x) THEN x[i + s] ELSE 0]

\* 1ULL << bit
OneShiftedLeft(bit) == [i \in 1..64 |-> IF i = bit + 1 THEN 1 ELSE 0]

\* x & y, both operands converted to unsigned long long.
BitAnd(x, y) ==
    LET a == U64(x)
        b == U64(y)
    IN  [i \in 1..64 |-> IF a[i] = 1 /\ b[i] = 1 THEN 1 ELSE 0]

\* #define BIT_CHECK(x, bit)  (!!((x) & (1ULL << (bit))))
BIT_CHECK(x, bit) ==
    LET masked == BitAnd(x, OneShiftedLeft(bit))
    IN  IF \E i \in 1..64 : masked[i] # 0 THEN 1 ELSE 0

\* BIT_CHECK((u8)(x), bit) ? '1' : '0'
BitChar(x, bit) == IF BIT_CHECK(U8(x), bit) # 0 THEN "1" ELSE "0"

\* #define BYTE_TO_BINARY_CHARS_8(x): bits 7, 6, ..., 0 of (u8)(x).
BYTE_TO_BINARY_CHARS_8_LsbFirst(x) ==
    <<BitChar(x, 0), BitChar(x, 1), BitChar(x, 2), BitChar(x, 3),
      BitChar(x, 4), BitChar(x, 5), BitChar(x, 6), BitChar(x, 7)>>
BYTE_TO_BINARY_CHARS_8(x) ==
    <<BitChar(x, 7), BitChar(x, 6), BitChar(x, 5), BitChar(x, 4),
      BitChar(x, 3), BitChar(x, 2), BitChar(x, 1), BitChar(x, 0)>>

\* #define BYTE_TO_BINARY_CHARS_16(x) BYTE_TO_BINARY_CHARS_8(((u16) (x)) >> 8), BYTE_TO_BINARY_CHARS_8(((u16) (x)))
BYTE_TO_BINARY_CHARS_16_LowFirst(x) ==
    BYTE_TO_BINARY_CHARS_8(U16(x)) \o BYTE_TO_BINARY_CHARS_8(ShiftRight(U16(x), 8))
BYTE_TO_BINARY_CHARS_16(x) ==
    BYTE_TO_BINARY_CHARS_8(ShiftRight(U16(x), 8)) \o BYTE_TO_BINARY_CHARS_8(U16(x))

\* #define BYTE_TO_BINARY_CHARS_32(x) BYTE_TO_BINARY_CHARS_16(((u32) (x)) >> 16), BYTE_TO_BINARY_CHARS_16(((u32) (x)))
BYTE_TO_BINARY_CHARS_32(x) ==
    BYTE_TO_BINARY_CHARS_16(ShiftRight(U32(x), 16)) \o BYTE_TO_BINARY_CHARS_16(U32(x))

\* #define BYTE_TO_BINARY_CHARS_64(x) BYTE_TO_BINARY_CHARS_32(((u64) (x)) >> 32), BYTE_TO_BINARY_CHARS_32(((u64) (x)))
BYTE_TO_BINARY_CHARS_64(x) ==
    BYTE_TO_BINARY_CHARS_32(ShiftRight(U64(x), 32)) \o BYTE_TO_BINARY_CHARS_32(U64(x))

\* #define BINARY_FORMAT_PATTERN_PREFIX "0b"
BINARY_FORMAT_PATTERN_PREFIX == <<"0", "b">>
\* #define BINARY_FORMAT_PATTERN_DELIMITER "_"
BINARY_FORMAT_PATTERN_DELIMITER == <<"_">>

\* The string literal "%c%c%c%c%c%c%c%c".
EightPlaceholders ==
    <<"%", "c", "%", "c", "%", "c", "%", "c", "%", "c", "%", "c", "%", "c", "%", "c">>

\* Adjacent string literals are concatenated.
BINARY_FORMAT_PATTERN_8 == BINARY_FORMAT_PATTERN_PREFIX \o EightPlaceholders
BINARY_FORMAT_PATTERN_16 ==
    BINARY_FORMAT_PATTERN_PREFIX \o EightPlaceholders
    \o BINARY_FORMAT_PATTERN_DELIMITER \o EightPlaceholders
BINARY_FORMAT_PATTERN_32_ThreeGroups ==
    BINARY_FORMAT_PATTERN_PREFIX \o EightPlaceholders
    \o BINARY_FORMAT_PATTERN_DELIMITER \o EightPlaceholders
    \o BINARY_FORMAT_PATTERN_DELIMITER \o EightPlaceholders
BINARY_FORMAT_PATTERN_32 ==
    BINARY_FORMAT_PATTERN_PREFIX \o EightPlaceholders
    \o BINARY_FORMAT_PATTERN_DELIMITER \o EightPlaceholders
    \o BINARY_FORMAT_PATTERN_DELIMITER \o EightPlaceholders
    \o BINARY_FORMAT_PATTERN_DELIMITER \o EightPlaceholders
BINARY_FORMAT_PATTERN_64 ==
    BINARY_FORMAT_PATTERN_PREFIX \o EightPlaceholders
    \o BINARY_FORMAT_PATTERN_DELIMITER \o EightPlaceholders
    \o BINARY_FORMAT_PATTERN_DELIMITER \o EightPlaceholders
    \o BINARY_FORMAT_PATTERN_DELIMITER \o EightPlaceholders
    \o BINARY_FORMAT_PATTERN_DELIMITER \o EightPlaceholders
    \o BINARY_FORMAT_PATTERN_DELIMITER \o EightPlaceholders
    \o BINARY_FORMAT_PATTERN_DELIMITER \o EightPlaceholders
    \o BINARY_FORMAT_PATTERN_DELIMITER \o EightPlaceholders

Widths == {8, 16, 32, 64}

PatternOf(w) ==
    CASE w = 8  -> BINARY_FORMAT_PATTERN_8
      [] w = 16 -> BINARY_FORMAT_PATTERN_16
      [] w = 32 -> BINARY_FORMAT_PATTERN_32
      [] w = 64 -> BINARY_FORMAT_PATTERN_64

CharsOf(w, x) ==
    CASE w = 8  -> BYTE_TO_BINARY_CHARS_8(x)
      [] w = 16 -> BYTE_TO_BINARY_CHARS_16(x)
      [] w = 32 -> BYTE_TO_BINARY_CHARS_32(x)
      [] w = 64 -> BYTE_TO_BINARY_CHARS_64(x)

\* Byte values, bit 0 first: 0xB0, 0x4F, 0x00, 0xFF, 0x01, 0x80.
ByteB0 == <<0, 0, 0, 0, 1, 1, 0, 1>>
Byte4F == <<1, 1, 1, 1, 0, 0, 1, 0>>
Byte00 == <<0, 0, 0, 0, 0, 0, 0, 0>>
ByteFF == <<1, 1, 1, 1, 1, 1, 1, 1>>
Byte01 == <<1, 0, 0, 0, 0, 0, 0, 0>>
Byte80 == <<0, 0, 0, 0, 0, 0, 0, 1>>
AllPairs == <<{ByteB0, Byte4F}, {Byte00, ByteB0}, {ByteFF, Byte01}, {Byte80, Byte00}>>

\* The arguments: the 64-bit values whose eight bytes (byte 0 first) are all
\* taken from one of the first NumPairs pairs of byte values.
Values ==
    UNION {{Flatten(bs) : bs \in [1..8 -> AllPairs[p]]} : p \in 1..NumPairs}

FormatInit ==
    /\ value \in Values
    /\ width = 0
    /\ pattern = <<>>
    /\ chars = <<>>

\* printf(BINARY_FORMAT_PATTERN_w "\n", BYTE_TO_BINARY_CHARS_w(x));
Format(w) ==
    /\ width' = w
    /\ pattern' = PatternOf(w)
    /\ chars' = CharsOf(w, value)
    /\ UNCHANGED <<value, dispatchVars, enumVars>>

FormatNext == \E w \in Widths : Format(w)

(***************************************************************************)
(*                            Specifications                               *)
(***************************************************************************)
DispatchIdle ==
    /\ family = "greet"
    /\ defined = {1, 2}
    /\ called = FALSE
    /\ callArgs = <<>>
    /\ count = <<>>
    /\ expansion = <<>>
    /\ outcome = NoOutcome

EnumIdle ==
    LET d == Declare(<<"A">>)
    IN  /\ list = <<"A">>
        /\ build = d.build
        /\ enumMembers = d.members
        /\ nameTable = d.table

FormatIdle ==
    /\ value = Zeros(64)
    /\ width = 0
    /\ pattern = <<>>
    /\ chars = <<>>

\* Calls through a dispatcher.
InitDispatch == DispatchInit /\ EnumIdle /\ FormatIdle
SpecDispatch == InitDispatch /\ [][DispatchNext]_vars

\* Edits of a canonical list, each followed by a rebuild.
InitEnum == DispatchIdle /\ EnumInit /\ FormatIdle
SpecEnum == InitEnum /\ [][EnumNext]_vars

\* Formatting calls.
InitFormat == DispatchIdle /\ EnumIdle /\ FormatInit
SpecFormat == InitFormat /\ [][FormatNext]_vars

(***************************************************************************)
(*                     Properties of DEFAULT ARGUMENTS                     *)
(***************************************************************************)
NumArgs == Len(callArgs)

\* C9: for a call with k arguments, 1 <= k <= 8, VA_ARGS_COUNT yields exactly
\* the token k: the ninth place of "arguments, 8, 7, ..., 0" holds the sentinel
\* k, never one of the real arguments and never the sentinel 0.
C9_CountIsArity ==
    (called /\ NumArgs \in 1..8) =>
        /\ count = <<ToString(NumArgs)>>
        /\ count # <<"0">>
        /\ \A i \in 1..NumArgs : count # <<callArgs[i]>>
        /\ \E s \in 1..Len(Sentinels) :
              /\ NumArgs + s = 9
              /\ count = <<Sentinels[s]>>

C9_Witness == called /\ NumArgs = 8 /\ count = <<"8">>

\* C1 as stated: a call with k arguments, 1 <= k <= 8, for which fk is
\* defined invokes exactly fk with the arguments a1..ak in order.
C1_InvokesArityImplementation ==
    (called /\ NumArgs \in 1..8 /\ NumArgs \in defined) =>
        /\ outcome.status = "invoked"
        /\ outcome.symbol = ImplName(family, NumArgs)
        /\ outcome.args = callArgs

\* C6 as stated: a call with k arguments, 1 <= k <= 8, to a family without an
\* implementation for arity k invokes nothing and ends in a build failure
\* that names fk, the family and k.
C6_MissingArityNamesImplementation ==
    (called /\ NumArgs \in 1..8 /\ NumArgs \notin defined) =>
        /\ outcome.status = "build_failure"
        /\ outcome.symbol = ImplName(family, NumArgs)

\* C8 as stated: a call with no argument is not counted as arity 1 and
\* selects no implementation of the family.
C8_ZeroArgumentsNotArityOne ==
    (called /\ NumArgs = 0) =>
        /\ count # <<"1">>
        /\ outcome.status # "invoked"

(***************************************************************************)
(*                          Properties of ENUMS                            *)
(***************************************************************************)
\* C2: for every non-empty duplicate-free list, whatever insertions, removals
\* and reorderings led to it, the build succeeds, the i-th enumeration
\* constant is the i-th name with ordinal i (from 0), the name table has as
\* many entries as the list, and the string of its i-th entry is the i-th name.
C2_EnumAndNamesAligned ==
    (list # <<>> /\ ~HasDuplicate(list)) =>
        /\ build = "ok"
        /\ Len(enumMembers) = Len(list)
        /\ Len(nameTable) = Len(list)
        /\ \A i \in 1..Len(list) :
              /\ enumMembers[i].name = list[i]
              /\ enumMembers[i].ordinal = i - 1
              /\ CString(nameTable[i].data) = Spelling[list[i]]

C2_Witness ==
    /\ Len(list) = 3
    /\ list[1] = "RED"
    /\ list[3] = "A"
    /\ ~HasDuplicate(list)
    /\ enumMembers[3] = [name |-> "A", ordinal |-> 2]
    /\ CString(nameTable[1].data) = <<"R", "E", "D">>

\* C7: a list that holds a name twice makes the build fail with a
\* redefinition, and no build yields two enumeration constants of one name or
\* of one ordinal, or a constant whose name is not in the list.
C7_DuplicateRejected ==
    /\ HasDuplicate(list) =>
          /\ build = "redefinition"
          /\ enumMembers = <<>>
          /\ nameTable = <<>>
    /\ \A i, j \in 1..Len(enumMembers) :
          i # j => /\ enumMembers[i].name # enumMembers[j].name
                   /\ enumMembers[i].ordinal # enumMembers[j].ordinal
    /\ \A i \in 1..Len(enumMembers) : \E j \in 1..Len(list) : enumMembers[i].name = list[j]

C7_Witness ==
    /\ Len(list) = 3
    /\ list[1] = list[3]
    /\ build = "redefinition"

\* C10 as stated: the length stored in every name-table entry is the number
\* of characters of the entry's string, which is the name.
C10_LengthIsNameLength ==
    build = "ok" =>
        \A i \in 1..Len(nameTable) :
            /\ nameTable[i].length = Len(CString(nameTable[i].data))
            /\ nameTable[i].length = Len(Spelling[list[i]])

(***************************************************************************)
(*                        Properties of FORMATTING                         *)
(***************************************************************************)
BitOfChar(c) == IF c = "1" THEN 1 ELSE 0

\* The integer whose binary digits, most significant first, are cs: every
\* digit doubles the integer read so far and adds its bit.
RECURSIVE Reassemble(_, _)
Reassemble(cs, acc) ==
    IF cs = <<>> THEN acc
    ELSE Reassemble(Tail(cs), <<BitOfChar(Head(cs))>> \o acc)

\* v mod 2^w: the low w bits of v.
ModTwoTo(v, w) == SubSeq(v, 1, w)

\* The number a bit vector of fewer than 31 bits stands for.
RECURSIVE Number(_)
Number(bits) == IF bits = <<>> THEN 0 ELSE Head(bits) + 2 * Number(Tail(bits))

RECURSIVE NumberOfDigits(_, _)
NumberOfDigits(cs, acc) ==
    IF cs = <<>> THEN acc ELSE NumberOfDigits(Tail(cs), 2 * acc + BitOfChar(Head(cs)))

\* C3: BYTE_TO_BINARY_CHARS_w(v) is exactly w characters, the j-th of which
\* (j = 0..w-1) is '1' if bit w-1-j of v is set and '0' otherwise; the bits of
\* v from position w up are ignored: the characters read as a binary number,
\* most significant first, are v mod 2^w.
C3_BigEndianBits ==
    width \in Widths =>
        /\ Len(chars) = width
        /\ \A j \in 0..(width - 1) :
              chars[j + 1] = IF value[(width - 1 - j) + 1] = 1 THEN "1" ELSE "0"
        /\ Reassemble(chars, <<>>) = ModTwoTo(value, width)
        /\ width <= 16 => NumberOfDigits(chars, 0) = Number(ModTwoTo(value, width))

C3_Witness ==
    /\ width = 8
    /\ value[9] = 1
    /\ chars = <<"1", "0", "1", "1", "0", "0", "0", "0">>

\* v >> s as the caller writes it, on the argument itself: the vacated high
\* bits are 0 for an unsigned v and copies of the sign bit (fill) for a
\* negative v.
ShiftRightFill(x, s, fill) ==
    [i \in 1..Len(x) |-> IF i + s <= Len(x) THEN x[i + s] ELSE fill]

\* C4: the characters of width 16 are those of width 8 of (v >> 8) followed by
\* those of width 8 of v; width 32 is width 16 of (v >> 16) then width 16 of v;
\* width 64 is width 32 of (v >> 32) then width 32 of v.
C4_Composition ==
    \A fill \in {0, 1} :
        /\ width = 16 =>
              chars = BYTE_TO_BINARY_CHARS_8(ShiftRightFill(value, 8, fill))
                      \o BYTE_TO_BINARY_CHARS_8(value)
        /\ width = 32 =>
              chars = BYTE_TO_BINARY_CHARS_16(ShiftRightFill(value, 16, fill))
                      \o BYTE_TO_BINARY_CHARS_16(value)
        /\ width = 64 =>
              chars = BYTE_TO_BINARY_CHARS_32(ShiftRightFill(value, 32, fill))
                      \o BYTE_TO_BINARY_CHARS_32(value)

C4_Witness ==
    /\ width = 64
    /\ SubSeq(chars, 1, 32) # SubSeq(chars, 33, 64)
    /\ SubSeq(chars, 1, 32) = BYTE_TO_BINARY_CHARS_32(ShiftRightFill(value, 32, 1))

\* The placeholders of a pattern: the places where "%c" stands.
Placeholders(p) == {i \in 1..(Len(p) - 1) : p[i] = "%" /\ p[i + 1] = "c"}

\* C5: BINARY_FORMAT_PATTERN_w is "0b" followed by w placeholders "%c" in
\* w/8 groups of 8 with "_" between two groups and nowhere else, and has as
\* many placeholders as BYTE_TO_BINARY_CHARS_w has characters: w.
C5_PatternShape ==
    width \in Widths =>
        /\ Len(pattern) = 2 + 17 * (width \div 8) - 1
        /\ pattern[1] = "0"
        /\ pattern[2] = "b"
        /\ \A i \in 1..(Len(pattern) - 2) :
              pattern[i + 2] = IF i % 17 = 0 THEN "_"
                               ELSE IF (i % 17) % 2 = 1 THEN "%" ELSE "c"
        /\ Cardinality(Placeholders(pattern)) = width
        /\ Cardinality(Placeholders(pattern)) = Len(chars)

C5_Witness ==
    /\ width = 64
    /\ Cardinality(Placeholders(pattern)) = 64
    /\ Len(chars) = 64
    /\ pattern[19] = "_"

====
